---- MODULE Spec2Model ----
(***************************************************************************)
(* Model of repository-orm: the Entity model (model.py), the repository    *)
(* Cache (adapters/data/cache.py), the repository core                     *)
(* (adapters/data/abstract.py) and the two staging backends, the in-memory *)
(* FakeRepository (adapters/data/fake.py) and the TinyDBRepository         *)
(* (adapters/data/tinydb.py).                                              *)
(*                                                                         *)
(* Python objects are modelled by value.  The one aliasing the model keeps *)
(* is the caller's handle on the entity it added last (variable `live`):   *)
(* the backends store the object they are handed, not a copy, so a slot of *)
(* a backend container carries an `alias` flag telling whether the object  *)
(* in it IS the caller's live object.                                      *)
(***************************************************************************)
EXTENDS Integers, Sequences, FiniteSets, TLC

\* ------------------------------------------------------------------ bounds
\* Greatest integer id the callers and the auto-increment may use.
MaxId == 1
\* Number of public calls in one run of the repository.
MaxOps == 3

\* ------------------------------------------------------------- identifiers
\* EntityID = Union[int, str, AnyHttpUrl].  An int id n is <<"int", n>>, a
\* str id is <<"str", cs>> with cs its characters (code points).
IntId(n) == <<"int", n>>
StrId(cs) == <<"str", cs>>
isinstance_int(id) == id[1] = "int"

\* Code points of the characters that occur: ord("-"), ord("0"), ord("a")...
Ord == [minus |-> 45, zero |-> 48, a |-> 97, b |-> 98, x |-> 120, A |-> 65,
        Z |-> 90, three |-> 51, caret |-> 94, dot |-> 46,
        T |-> 84, r |-> 114, u |-> 117, e |-> 101,
        F |-> 70, l |-> 108, s |-> 115, N |-> 78, o |-> 111, n |-> 110]

\* str(n) of a non-negative int below 100.
Digits(n) ==
  IF n < 10 THEN <<Ord.zero + n>> ELSE <<Ord.zero + (n \div 10), Ord.zero + (n % 10)>>
\* str(id_)
str(id) ==
  IF isinstance_int(id)
  THEN (IF id[2] < 0 THEN <<Ord.minus>> \o Digits(0 - id[2]) ELSE Digits(id[2]))
  ELSE id[2]

\* Python's str.__lt__: lexicographic on code points.
RECURSIVE StrLess(_, _)
StrLess(a, b) ==
  IF b = <<>> THEN FALSE
  ELSE IF a = <<>> THEN TRUE
  ELSE IF Head(a) # Head(b) THEN Head(a) < Head(b)
  ELSE StrLess(Tail(a), Tail(b))

\* str.lower() on code points
lower_str(cs) ==
  [i \in DOMAIN cs |->
     IF Ord.A <= cs[i] /\ cs[i] <= Ord.Z THEN cs[i] + (Ord.a - Ord.A) ELSE cs[i]]

\* The regular expressions of the runs: literal characters, "." for any
\* character, and "^" in front for the start of the text.
\* Does pattern p match text t from its first character on?
RECURSIVE MatchHere(_, _)
MatchHere(p, t) ==
  IF p = <<>> THEN TRUE
  ELSE IF t = <<>> THEN FALSE
  ELSE (Head(p) = Ord.dot \/ Head(p) = Head(t)) /\ MatchHere(Tail(p), Tail(t))

\* re.search(pattern, text) is not None
re_search(pattern, text) ==
  IF pattern # <<>> /\ Head(pattern) = Ord.caret
  THEN MatchHere(Tail(pattern), text)
  ELSE \E i \in 1..(Len(text) + 1) : MatchHere(pattern, SubSeq(text, i, Len(text)))

\* re.search(pattern, text, flags=re.IGNORECASE) is not None
re_search_ignorecase(pattern, text) == re_search(lower_str(pattern), lower_str(text))

\* ------------------------------------------------------------------ dicts
\* A Python dict is a function on its keys.
EmptyDict == [k \in {} |-> k]
Put(d, k, v) == [x \in (DOMAIN d) \cup {k} |-> IF x = k THEN v ELSE d[x]]
Pop(d, k) == [x \in (DOMAIN d) \ {k} |-> d[x]]
\* A setdefault that takes the new value whatever is there (d[k] = v): the
\* fault C29 is told from.
setdefault_overwriting(d, k, v) == Put(d, k, v)
\* dict.setdefault(k, v): keeps the value already there.
setdefault(d, k, v) == IF k \in DOMAIN d THEN d ELSE Put(d, k, v)

\* ---------------------------------------------------------- entity models
\* The entity classes of the runs: Genre (int id_, rating in _skip_on_merge)
\* and OtherEntity (id_ of the base class: EntityID).
Models == {"Genre", "OtherEntity"}
\* The fields besides id_ that the runs give and set; the other declared
\* fields (state, active, Genre.description) keep their defaults throughout.
Fields(model) ==
  IF model = "Genre" THEN {"name", "rating"}
  ELSE IF model = "OtherEntity" THEN {"name", "description"}
  ELSE IF model = "ListEntity" THEN {"name", "elements"}
  ELSE IF model = "BoolEntity" THEN {"name", "active"}
  ELSE {"name"}
\* The class Genre and OtherEntity derive from: "Entity" of the test cases,
\* whose objects the runs of merge build too.
BaseModel == "Entity"
\* A class that protects nothing from merge: the fault C10 is told from.
_skip_nothing(model) == {}
_skip_on_merge(model) == IF model = "Genre" THEN {"rating"} ELSE {}
NoneV == "None"

\* An Entity object: its class, id_, the other fields, and _defined_values.
Entity(model, id, attrs, dv) == [model |-> model, id_ |-> id, attrs |-> attrs, dv |-> dv]

\* Entity.__init__(**data): data holds the keyword arguments given; the fields
\* left out take the class default (True for active, None for the other
\* optional fields; name and elements are required); _defined_values = data.
__init__(model, data) ==
  Entity(model,
         IF "id_" \in DOMAIN data THEN data["id_"] ELSE IntId(-1),
         [f \in Fields(model) |-> IF f \in DOMAIN data THEN data[f]
                                ELSE IF f = "active" THEN "True" ELSE NoneV],
         data)

\* BaseModel.__eq__: the field dicts are equal.
Eq(a, b) ==
  /\ a.id_ = b.id_
  /\ DOMAIN a.attrs = DOMAIN b.attrs
  /\ \A f \in DOMAIN a.attrs : a.attrs[f] = b.attrs[f]

\* Entity.__lt__ / Entity.__gt__
__lt__(self, other) ==
  IF isinstance_int(other.id_) /\ isinstance_int(self.id_)
  THEN self.id_[2] < other.id_[2]
  ELSE StrLess(str(self.id_), str(other.id_))
__gt__(self, other) ==
  IF isinstance_int(other.id_) /\ isinstance_int(self.id_)
  THEN self.id_[2] > other.id_[2]
  ELSE StrLess(str(other.id_), str(self.id_))

\* Entity.__setattr__: the value goes to the field and to _defined_values.
__setattr__(self, attribute, value) ==
  IF attribute = "id_"
  THEN [self EXCEPT !.id_ = value, !.dv = Put(self.dv, attribute, value)]
  ELSE [self EXCEPT !.attrs = Put(self.attrs, attribute, value),
                    !.dv = Put(self.dv, attribute, value)]

\* Entity.clear_defined_values
clear_defined_values(self) == [self EXCEPT !.dv = EmptyDict]

\* The loop of Entity.merge over other._defined_values.items(), keys taken
\* in any order (each key is set once, so the order does not matter).
RECURSIVE MergeLoop(_, _, _)
MergeLoop(self, other, keys) ==
  IF keys = {} THEN self
  ELSE LET k == CHOOSE x \in keys : TRUE
           nxt == IF k \notin _skip_on_merge(self.model)
                  THEN __setattr__(self, k, other.dv[k])
                  ELSE self
       IN MergeLoop(nxt, other, keys \ {k})

\* A merge that takes every field of other, defined by the user or not: the
\* fault C9 is told from.
merge_every_field(self, other) ==
  IF other.model # self.model THEN [err |-> "ValueError", self |-> self]
  ELSE IF self.id_ # other.id_ THEN [err |-> "ValueError", self |-> self]
  ELSE [err |-> "ok",
        self |-> [self EXCEPT !.attrs = [x \in DOMAIN self.attrs |->
                    IF x \in _skip_on_merge(self.model) THEN self.attrs[x]
                    ELSE other.attrs[x]]]]

\* The keys of other._defined_values that self's class has no field for
\* (none when other is of self's own class).  In the runs they come after
\* id_ and name in the dict, and there is at most one of them.
NoField(self, other) == DOMAIN other.dv \ (Fields(self.model) \cup {"id_"})

\* The end of the loop of Entity.merge: setattr of a name that is no field
\* records it in _defined_values, then BaseModel.__setattr__ raises ValueError.
merge_loop(merged, other, no_field) ==
  IF no_field = {} THEN [err |-> "ok", self |-> merged]
  ELSE [err |-> "ValueError",
        self |-> [merged EXCEPT !.dv = Put(merged.dv, CHOOSE k \in no_field : TRUE,
                                           other.dv[CHOOSE k \in no_field : TRUE])]]

\* Entity.merge: [err, self]; err is "ok" or "ValueError".  isinstance(other,
\* type(self)): other is of the class of self or of a class derived from it.
merge(self, other) ==
  IF ~(other.model = self.model \/ self.model = BaseModel)
  THEN [err |-> "ValueError", self |-> self]
  ELSE IF self.id_ # other.id_ THEN [err |-> "ValueError", self |-> self]
  ELSE merge_loop(MergeLoop(self, other, DOMAIN other.dv \ NoField(self, other)),
                  other, NoField(self, other))

\* ------------------------------------------------------------------ cache
\* Cache.add of one entity: setdefault on the class, then on the id_, of
\* entity.copy().  The copy takes the fields; a later change of the entity's
\* fields does not reach it.  Its _defined_values are never read (__eq__
\* compares the fields) and are kept empty.
cache_add1(cache, entity) ==
  LET c1 == setdefault(cache, entity.model, EmptyDict)
  IN [c1 EXCEPT ![entity.model] = setdefault(@, entity.id_, clear_defined_values(entity))]

\* Cache.add of a list of entities, in list order.
RECURSIVE cache_add(_, _)
cache_add(cache, entities) ==
  IF entities = <<>> THEN cache
  ELSE cache_add(cache_add1(cache, Head(entities)), Tail(entities))

\* Cache.get: [err, val]; err is "KeyError" when the class or the id_ is absent.
cache_get(cache, entity) ==
  IF entity.model \in DOMAIN cache /\ entity.id_ \in DOMAIN cache[entity.model]
  THEN [err |-> "ok", val |-> cache[entity.model][entity.id_]]
  ELSE [err |-> "KeyError", val |-> entity]

\* A check that finds every entity changed, so that no add is skipped: the
\* fault C26 is told from.
entity_has_always_changed(cache, entity) == FALSE

\* A check that reads no value: an entity counts as unchanged whenever a
\* snapshot of its class and id_ is cached.  The fault C31 is told from.
entity_is_cached(cache, entity) == cache_get(cache, entity).err = "ok"

\* Cache.entity_has_not_changed
entity_has_not_changed(cache, entity) ==
  LET r == cache_get(cache, entity)
  IN IF r.err = "KeyError" THEN FALSE ELSE Eq(r.val, entity)

\* A removal that drops every snapshot of the entity's class: the fault C32
\* is told from.
cache_remove_class(cache, entity) == Pop(cache, entity.model)

\* Cache.remove of one entity (KeyError of an absent class suppressed;
\* pop of an absent id_ inside the class raises KeyError, suppressed too).
cache_remove1(cache, entity) ==
  IF entity.model \in DOMAIN cache
  THEN [cache EXCEPT ![entity.model] = Pop(@, entity.id_)]
  ELSE cache

\* Cache.remove of a list of entities, in list order.
RECURSIVE cache_remove(_, _)
cache_remove(cache, entities) ==
  IF entities = <<>> THEN cache
  ELSE cache_remove(cache_remove1(cache, Head(entities)), Tail(entities))

\* ------------------------------------------------------ sorted / max / min
\* sorted(entities): ascending by __lt__ (selection of the least element).
RECURSIVE SortSet(_)
SortSet(S) ==
  IF S = {} THEN <<>>
  ELSE LET m == CHOOSE e \in S : \A o \in S : ~__lt__(o, e)
       IN <<m>> \o SortSet(S \ {m})
Range(seq) == {seq[i] : i \in DOMAIN seq}
\* The entities from the greatest to the least: the fault C14 is told from.
sorted_reverse(seq) ==
  [i \in 1..Len(SortSet(Range(seq))) |->
     SortSet(Range(seq))[Len(SortSet(Range(seq))) + 1 - i]]
sorted(seq) == SortSet(Range(seq))

\* max(seq) of a non-empty sequence: the first element no later one exceeds.
RECURSIVE MaxFrom(_, _)
MaxFrom(best, rest) ==
  IF rest = <<>> THEN best
  ELSE MaxFrom(IF __gt__(Head(rest), best) THEN Head(rest) ELSE best, Tail(rest))
max(seq) == MaxFrom(Head(seq), Tail(seq))
RECURSIVE MinFrom(_, _)
MinFrom(best, rest) ==
  IF rest = <<>> THEN best
  ELSE MinFrom(IF __lt__(Head(rest), best) THEN Head(rest) ELSE best, Tail(rest))
min(seq) == MinFrom(Head(seq), Tail(seq))

\* ------------------------------------------------------------------ state
\* The state of one repository and of its caller.
\*   backend       "fake" or "tinydb", fixed at construction
\*   entities      FakeRepository.entities: class -> id_ -> slot
\*   new_entities  FakeRepository.new_entities, same shape
\*   db_           TinyDBRepository.db_: the set of stored documents
\*   staged        TinyDBRepository.staged: [add: slots, remove: entities]
\*   cache         Repository.cache.cache: class -> id_ -> snapshot
\*   live          the caller's handle: <<>> or <<the entity object>>
\*   ops           number of public calls made
\*   called        the last public call: [op, err]
\*   is_connection_closed  FakeRepository.is_connection_closed; for a
\*                 TinyDBRepository, whether the storage file of db_ is closed
VARIABLES backend, entities, new_entities, db_, staged, cache, live, ops, called,
          is_connection_closed
repoVars == <<backend, entities, new_entities, db_, staged, cache, live, ops, called,
              is_connection_closed>>

\* The state of the runs of Entity.merge on two entities the caller holds.
\*   merge_self    the entity merge is called on
\*   merge_other   the entity passed to it
\*   merge_old     <<self, other>> as they were when merge was called
\*   merge_ret     what the call gave: [err, val], <<>> before the call
VARIABLES merge_self, merge_other, merge_old, merge_ret
mergeVars == <<merge_self, merge_other, merge_old, merge_ret>>

\* The entities a caller hands to sorted, max and min, in the order given.
VARIABLES supplied

vars == <<repoVars, mergeVars, supplied>>

\* The repository part of the state as one value, for the operators below.
St == [backend |-> backend, entities |-> entities, new_entities |-> new_entities,
       db_ |-> db_, staged |-> staged, cache |-> cache, live |-> live]

\* A slot of a backend container: the object in it, and whether that object
\* is the caller's live object.
Slot(obj, alias) == [obj |-> obj, alias |-> alias]

\* copy.deepcopy of a class -> id_ -> entity dict: new objects throughout.
deepcopy(db) == [m \in DOMAIN db |-> [i \in DOMAIN db[m] |-> Slot(db[m][i].obj, FALSE)]]

\* What an operator returns: the state it leaves, the exception it raised
\* ("ok" when none) and its value.
Ret(s, err, val) == [st |-> s, err |-> err, val |-> val]
NoVal == <<>>

\* ------------------------------------------------------- FakeRepository
\* FakeRepository._add
fake_add(s, entity) ==
  LET ne0 == IF s.new_entities = EmptyDict THEN deepcopy(s.entities) ELSE s.new_entities
      ne1 == setdefault(ne0, entity.model, EmptyDict)
      ne2 == [ne1 EXCEPT ![entity.model] = Put(@, entity.id_, Slot(entity, TRUE))]
  IN Ret([s EXCEPT !.new_entities = ne2], "ok", entity)

\* A delete that is not staged, the entity leaving the store at once: the
\* fault C4 is told from.
fake_delete_at_once(s, entity) ==
  IF entity.model \in DOMAIN s.entities
  THEN Ret([s EXCEPT !.entities = [@ EXCEPT ![entity.model] = Pop(@, entity.id_)]],
           "ok", NoVal)
  ELSE Ret(s, "EntityNotFoundError", NoVal)

\* FakeRepository.delete
fake_delete(s, entity) ==
  LET ne0 == IF s.new_entities = EmptyDict THEN deepcopy(s.entities) ELSE s.new_entities
  IN IF entity.model \in DOMAIN ne0
     THEN Ret([s EXCEPT !.new_entities = [ne0 EXCEPT ![entity.model] = Pop(@, entity.id_)]],
              "ok", NoVal)
     ELSE Ret([s EXCEPT !.new_entities = ne0], "EntityNotFoundError", NoVal)

\* FakeRepository._get with attribute "id_": the deep copies of the matches.
fake_get(s, value, model) ==
  IF model \in DOMAIN s.entities /\ value \in DOMAIN s.entities[model]
  THEN <<s.entities[model][value].obj>>
  ELSE <<>>

\* FakeRepository._all
fake_all(s, model) ==
  IF model \in DOMAIN s.entities
  THEN SortSet({s.entities[model][i].obj : i \in DOMAIN s.entities[model]})
  ELSE <<>>

\* A commit that takes the staged dict for the whole store, the classes with
\* nothing staged being lost: the fault C23 is told from.
fake_commit_replaced(s) ==
  [s EXCEPT !.entities = s.new_entities, !.new_entities = EmptyDict]

\* FakeRepository.commit
fake_commit(s) ==
  [s EXCEPT !.entities = [m \in (DOMAIN s.entities) \cup (DOMAIN s.new_entities) |->
                            IF m \in DOMAIN s.new_entities THEN s.new_entities[m]
                            ELSE s.entities[m]],
            !.new_entities = EmptyDict]

\* FakeRepository._staged_entities: [err, val]; KeyError when the class has
\* no dict in new_entities.
_staged_entities(s, model) ==
  IF model \in DOMAIN s.new_entities
  THEN [err |-> "ok",
        val |-> SortSet({s.new_entities[model][i].obj : i \in DOMAIN s.new_entities[model]})]
  ELSE [err |-> "KeyError", val |-> <<>>]

\* FakeRepository.empty
fake_empty(s) == [s EXCEPT !.entities = EmptyDict, !.new_entities = EmptyDict]

\* ----------------------------------------------------- TinyDBRepository
\* entity.model_name.lower() / model.__name__.lower()
lower(model) ==
  IF model = "Genre" THEN "genre"
  ELSE IF model = "OtherEntity" THEN "otherentity"
  ELSE IF model = "ListEntity" THEN "listentity"
  ELSE "boolentity"

\* TinyDBRepository._export_entity: entity.dict() plus model_type_.
_export_entity(entity) ==
  [k \in (DOMAIN entity.attrs) \cup {"id_", "model_type_"} |->
     IF k = "id_" THEN entity.id_
     ELSE IF k = "model_type_" THEN lower(entity.model)
     ELSE entity.attrs[k]]

\* TinyDBRepository._build_entity: model.parse_obj(entity_data), that is
\* model(**entity_data); the key model_type_ is no field and is ignored by
\* the class, but it is part of the data kept as _defined_values.
_build_entity(entity_data, model) == __init__(model, entity_data)

\* TinyDB.upsert(document, cond) with cond the (model_type_, id_) of it:
\* the matching documents are updated, or the document is inserted.
upsert(db, document) ==
  LET hit == {d \in db : d["model_type_"] = document["model_type_"]
                          /\ d["id_"] = document["id_"]}
  IN (db \ hit) \cup {document}

\* TinyDBRepository._add
tiny_add(s, entity) ==
  Ret([s EXCEPT !.staged.add = Append(@, Slot(entity, TRUE))], "ok", entity)

\* TinyDBRepository._get with attribute "id_": TinyDB.search of
\* (Query().model_type_ == ...) & (Query().id_ == value)
tiny_get(s, value, model) ==
  SortSet({_build_entity(d, model) :
             d \in {d \in s.db_ : d["model_type_"] = lower(model) /\ d["id_"] = value}})

\* TinyDBRepository._all: TinyDB.search of Query().model_type_ == ...
tiny_all(s, model) ==
  SortSet({_build_entity(d, model) :
             d \in {d \in s.db_ : d["model_type_"] = lower(model)}})

\* TinyDBRepository.commit: every staged add is upserted, in order, then
\* every staged remove is removed.
RECURSIVE UpsertAll(_, _)
UpsertAll(db, slots) ==
  IF slots = <<>> THEN db
  ELSE UpsertAll(upsert(db, _export_entity(Head(slots).obj)), Tail(slots))
RECURSIVE RemoveAll(_, _)
RemoveAll(db, removed) ==
  IF removed = <<>> THEN db
  ELSE RemoveAll({d \in db : ~(d["model_type_"] = lower(Head(removed).model)
                               /\ d["id_"] = Head(removed).id_)},
                 Tail(removed))
tiny_commit(s) ==
  [s EXCEPT !.db_ = RemoveAll(UpsertAll(s.db_, s.staged.add), s.staged.remove),
            !.staged = [add |-> <<>>, remove |-> <<>>]]

\* TinyDBRepository.empty
tiny_empty(s) == [s EXCEPT !.db_ = {}]

\* ------------------------------------------------- the repository core
\* The backend's _get, _all, _add and commit.
_get(s, value, model) ==
  IF s.backend = "fake" THEN fake_get(s, value, model) ELSE tiny_get(s, value, model)
_all(s, model) == IF s.backend = "fake" THEN fake_all(s, model) ELSE tiny_all(s, model)
_add(s, entity) == IF s.backend = "fake" THEN fake_add(s, entity) ELSE tiny_add(s, entity)
commit(s) == IF s.backend = "fake" THEN fake_commit(s) ELSE tiny_commit(s)
empty(s) == IF s.backend = "fake" THEN fake_empty(s) ELSE tiny_empty(s)

\* The matches of an id_ over the classes asked for, class after class.
RECURSIVE Matching(_, _, _)
Matching(s, id, models) ==
  IF models = <<>> THEN <<>>
  ELSE _get(s, id, Head(models)) \o Matching(s, id, Tail(models))

\* A get that settles for the first of several matches: the fault C8 is
\* told from.
FirstMatch(matching_entities) ==
  IF Len(matching_entities) = 0 THEN [err |-> "EntityNotFoundError", val |-> NoVal]
  ELSE [err |-> "ok", val |-> matching_entities[1]]

\* One match is returned, none is EntityNotFoundError, several are
\* TooManyEntitiesError: [err, val].
ExactlyOne(matching_entities) ==
  IF Len(matching_entities) = 1 THEN [err |-> "ok", val |-> matching_entities[1]]
  ELSE IF Len(matching_entities) = 0 THEN [err |-> "EntityNotFoundError", val |-> NoVal]
  ELSE [err |-> "TooManyEntitiesError", val |-> NoVal]

\* Repository.get, from the cleared entity on: it is cached and returned.
get_cached(s, entity) ==
  Ret([s EXCEPT !.cache = cache_add1(s.cache, entity)], "ok", entity)

\* Repository.get, from the outcome of the lookup on.
get_one(s, one) ==
  IF one.err # "ok" THEN Ret(s, one.err, NoVal)
  ELSE get_cached(s, clear_defined_values(one.val))

\* Repository.get: the one match, its defined values cleared, cached.
get(s, id, models) == get_one(s, ExactlyOne(Matching(s, id, models)))

\* A read that flushes the staged writes before it returns: the fault C37
\* is told from.
all_flushing(s, found) ==
  Ret([commit(s) EXCEPT !.cache = cache_add(s.cache, found)], "ok", found)

\* Repository.all, from the sorted entities on: they are cached and returned.
all_cached(s, found) ==
  Ret([s EXCEPT !.cache = cache_add(s.cache, found)], "ok", found)

\* Repository.all: sorted(self._all(models)), cached.
all(s, model) == all_cached(s, sorted(_all(s, model)))

\* max(self.all(models)): max of an empty list raises ValueError, turned
\* into EntityNotFoundError.
max_or_not_found(r) ==
  IF r.val = <<>> THEN Ret(r.st, "EntityNotFoundError", NoVal)
  ELSE Ret(r.st, "ok", max(r.val))

\* Repository.last
abstract_last(s, model) == max_or_not_found(all(s, model))

\* min(self.all(models)), the same way.
min_or_not_found(r) ==
  IF r.val = <<>> THEN Ret(r.st, "EntityNotFoundError", NoVal)
  ELSE Ret(r.st, "ok", min(r.val))

\* Repository.first
first(s, model) == min_or_not_found(all(s, model))

\* FakeRepository.last, from the outcome r of Repository.last and the staged
\* entities on.  max of an empty staged list raises ValueError, which no
\* except clause of the method catches.
fake_last_staged(r, staged_entities) ==
  IF staged_entities.err = "KeyError"
  THEN \* No staged entities: the last of the repo, or the error of the empty repo.
       r
  ELSE IF staged_entities.val = <<>> THEN Ret(r.st, "ValueError", NoVal)
  ELSE IF r.err = "EntityNotFoundError"
  THEN \* Empty repo but entities staged to be commited.
       Ret(r.st, "ok", max(staged_entities.val))
  ELSE \* Full repo and staged entities.
       Ret(r.st, "ok", max(<<r.val, max(staged_entities.val)>>))

\* FakeRepository.last, from the outcome of Repository.last on.
fake_last_of(r, model) == fake_last_staged(r, _staged_entities(r.st, model))

\* FakeRepository.last
fake_last(s, model) == fake_last_of(abstract_last(s, model), model)

\* TinyDBRepository.last, from the outcome r of Repository.last and the
\* staged entities of the model on.
tiny_last_staged(r, staged_entities) ==
  IF staged_entities = <<>> THEN r
  ELSE IF r.err = "EntityNotFoundError" THEN Ret(r.st, "ok", max(staged_entities))
  ELSE Ret(r.st, "ok", max(<<r.val, max(staged_entities)>>))

\* TinyDBRepository.last, from the outcome of Repository.last on; the staged
\* entities are entity for entity in self.staged["add"] if
\* entity.__class__ == model.
tiny_last_of(r, model) ==
  tiny_last_staged(r, SelectSeq([i \in DOMAIN r.st.staged.add |-> r.st.staged.add[i].obj],
                                LAMBDA e : e.model = model))

\* TinyDBRepository.last
tiny_last(s, model) == tiny_last_of(abstract_last(s, model), model)

last(s, model) == IF s.backend = "fake" THEN fake_last(s, model) ELSE tiny_last(s, model)

\* Repository.next_id, from the outcome of last on: val is the id (an int)
\* when err is "ok".
next_id_after(r) ==
  IF r.err = "EntityNotFoundError" THEN Ret(r.st, "ok", 0)
  ELSE IF r.err # "ok" THEN r
  ELSE IF isinstance_int(r.val.id_) THEN Ret(r.st, "ok", r.val.id_[2] + 1)
  ELSE Ret(r.st, "AutoIncrementError", NoVal)

\* Repository.next_id
next_id(s, entity) == next_id_after(last(s, entity.model))

\* TinyDBRepository.delete, from the outcome of get on.
tiny_delete_found(r, entity) ==
  IF r.err = "EntityNotFoundError" THEN Ret(r.st, "EntityNotFoundError", NoVal)
  ELSE Ret([r.st EXCEPT !.staged.remove = Append(@, entity)], "ok", NoVal)

\* TinyDBRepository.delete
tiny_delete(s, entity) == tiny_delete_found(get(s, entity.id_, <<entity.model>>), entity)

delete(s, entity) ==
  IF s.backend = "fake" THEN fake_delete(s, entity) ELSE tiny_delete(s, entity)

\* ------------------------------------------------------ Repository.search
\* The classes searched: the two above, ListEntity (elements: List[str]) and
\* BoolEntity (active: bool).
SearchModels == {"Genre", "OtherEntity", "ListEntity", "BoolEntity"}

\* The characters of the values the fields take: str(value).
Text(value) ==
  CASE value = "a" -> <<Ord.a>>
    [] value = "b" -> <<Ord.b>>
    [] value = "Ab" -> <<Ord.A, Ord.b>>
    [] value = "3" -> <<Ord.three>>
    [] value = "33" -> <<Ord.three, Ord.three>>
    [] value = "True" -> <<Ord.T, Ord.r, Ord.u, Ord.e>>
    [] value = "False" -> <<Ord.F, Ord.a, Ord.l, Ord.s, Ord.e>>
    [] value = "None" -> <<Ord.N, Ord.o, Ord.n, Ord.e>>

\* The type the class declares for a field.
FieldType(field) ==
  IF field = "rating" THEN "int"
  ELSE IF field = "active" THEN "bool"
  ELSE IF field = "elements" THEN "array"
  ELSE "str"

\* model.schema()["properties"].keys(), of the fields the runs use.
Schema(model) == Fields(model) \cup {"id_"}

\* entity.dict(), of the fields the runs use.
entity_dict(entity) ==
  [k \in (DOMAIN entity.attrs) \cup {"id_"} |->
     IF k = "id_" THEN entity.id_ ELSE entity.attrs[k]]

\* The Python type of the value a dict holds for a key, and its str().
ValType(d, key) ==
  IF key = "id_" THEN d[key][1]
  ELSE IF FieldType(key) = "array" THEN "array"
  ELSE IF d[key] = NoneV THEN "none"
  ELSE FieldType(key)
ValText(d, key) == IF key = "id_" THEN str(d[key]) ELSE Text(d[key])

\* A searched value is [type, text]: its Python type ("str", "int" or
\* "bool") and the characters of str(value).

\* deepdiff's grep(value, use_regexp=True, strict_checking=False) on one
\* leaf of the searched dict: a str value is lowercased and searched as a
\* regular expression in the lowercased str leaf; an int or bool value is
\* turned into str(value) first; a number leaf is searched in as str(leaf);
\* None matches nothing.
grep_leaf(value, type, text) ==
  IF type = "none" THEN FALSE
  ELSE IF value.type = "str"
  THEN re_search(lower_str(value.text), IF type = "str" THEN lower_str(text) ELSE text)
  ELSE re_search(value.text, text)

\* FakeRepository._search, one field: the entity has a matched value whose
\* path is root[id_]['key'], the elements of a list included.
fake_matches(d, key, value) ==
  /\ key \in DOMAIN d
  /\ IF ValType(d, key) = "array"
     THEN \E i \in DOMAIN d[key] : grep_leaf(value, "str", Text(d[key][i]))
     ELSE grep_leaf(value, ValType(d, key), ValText(d, key))

\* FakeRepository._search, from the outcome of self.all(model) on: the
\* entities are filtered field after field.
fake_search(r, fields) ==
  Ret(r.st, "ok",
      SortSet({e \in Range(r.val) :
                 \A key \in DOMAIN fields : fake_matches(entity_dict(e), key, fields[key])}))

\* _regexp_in_list: re.compile(regular_expression).search on each element.
_regexp_in_list(list_, regular_expression) ==
  \E i \in DOMAIN list_ : re_search(regular_expression, Text(list_[i]))

\* One part of TinyDBRepository._build_search_query, tested on a document.
query_part(d, key, value, model) ==
  /\ d["model_type_"] = lower(model)
  /\ key \in DOMAIN d
  /\ IF FieldType(key) = "array" /\ key # "id_"
     THEN _regexp_in_list(d[key], value.text)
     ELSE IF value.type = "str"
     THEN ValType(d, key) = "str" /\ re_search_ignorecase(value.text, ValText(d, key))
     ELSE ValType(d, key) = value.type /\ ValText(d, key) = value.text

\* TinyDBRepository._build_search_query: the fields the schema of the class
\* has each give a part; the others are passed over.
_build_search_query(fields, model) == (DOMAIN fields) \cap Schema(model)

\* TinyDBRepository._search: no part at all is EntityNotFoundError, caught
\* here; otherwise the documents that pass every part are built.
tiny_search(s, fields, model) ==
  IF _build_search_query(fields, model) = {} THEN <<>>
  ELSE SortSet({_build_entity(d, model) :
                  d \in {x \in s.db_ :
                           \A key \in _build_search_query(fields, model) :
                             query_part(x, key, fields[key], model)}})

\* The backend's _search.
_search(s, fields, model) ==
  IF s.backend = "fake" THEN fake_search(all(s, model), fields)
  ELSE Ret(s, "ok", tiny_search(s, fields, model))

\* Repository.search, from the outcome of _search on: the entities found are
\* sorted, cached and returned.  (Neither _search raises EntityNotFoundError,
\* so search_exception is never read.)
search_found(r) ==
  Ret([r.st EXCEPT !.cache = cache_add(r.st.cache, sorted(r.val))], "ok", sorted(r.val))

\* Repository.search
search(s, fields, model) == search_found(_search(s, fields, model))

\* ------------------------------------------------------------ the caller
\* The caller's object becomes obj, in every slot that holds it too.
Relive(s, obj) ==
  LET upd(slot) == IF slot.alias THEN Slot(obj, TRUE) ELSE slot
      updDb(db) == [m \in DOMAIN db |-> [i \in DOMAIN db[m] |-> upd(db[m][i])]]
  IN [s EXCEPT
        !.live = <<obj>>,
        !.entities = updDb(s.entities),
        !.new_entities = updDb(s.new_entities),
        !.staged.add = [i \in DOMAIN s.staged.add |-> upd(s.staged.add[i])]]

\* The caller builds a new entity and holds it; it lets go of the object it
\* held: no slot holds the caller's object.
caller_new(s, entity) ==
  [s EXCEPT
     !.live = <<entity>>,
     !.entities = deepcopy(s.entities),
     !.new_entities = deepcopy(s.new_entities),
     !.staged.add = [i \in DOMAIN s.staged.add |-> Slot(s.staged.add[i].obj, FALSE)]]

\* The caller sets a field of the entity it holds.
caller_set(s, attribute, value) == Relive(s, __setattr__(s.live[1], attribute, value))

\* ------------------------------------------------------- Repository.add
\* Repository.add works on the entity the caller holds (s.live[1]); the
\* caller keeps the entity returned.

\* The end of add: the entity the backend staged is cached and returned.
add_cached(a) ==
  Ret([a.st EXCEPT !.cache = cache_add1(a.st.cache, a.val)], "ok", a.val)

\* The last step of add: nothing is done for an entity equal to its cached
\* version; otherwise it goes to the backend and to the cache.
add_changed(s) ==
  IF entity_has_not_changed(s.cache, s.live[1]) THEN Ret(s, "ok", s.live[1])
  ELSE add_cached(_add(s, s.live[1]))

\* stored_entity.merge(entity) is the entity from here on.
add_merged(s, m) ==
  IF m.err # "ok" THEN Ret(s, m.err, NoVal)
  ELSE add_changed(caller_new(s, m.self))

\* A merge step that lets the EntityNotFoundError of get through: the fault
\* C13 is told from.
add_stored_or_raise(g, entity) ==
  IF g.err = "ok" THEN add_merged(g.st, merge(g.val, entity))
  ELSE Ret(g.st, g.err, NoVal)

\* The merge step of add, from the outcome g of get on: EntityNotFoundError
\* is suppressed, TooManyEntitiesError is not.
add_stored(g, entity) ==
  IF g.err = "ok" THEN add_merged(g.st, merge(g.val, entity))
  ELSE IF g.err = "EntityNotFoundError" THEN add_changed(g.st)
  ELSE Ret(g.st, g.err, NoVal)

\* add of an entity that has its id_.
add_identified(s, merging) ==
  IF merging
  THEN add_stored(get(s, s.live[1].id_, <<s.live[1].model>>), s.live[1])
  ELSE add_changed(s)

\* entity.id_ = self.next_id(entity), from the outcome n of next_id on.
add_next_id(n, merging) ==
  IF n.err # "ok" THEN Ret(n.st, n.err, NoVal)
  ELSE add_identified(Relive(n.st, __setattr__(n.st.live[1], "id_", IntId(n.val))),
                      merging)

\* Repository.add
add(s, merging) ==
  IF isinstance_int(s.live[1].id_) /\ s.live[1].id_[2] < 0
  THEN add_next_id(next_id(s, s.live[1]), merging)
  ELSE add_identified(s, merging)

\* ------------------------------------------------------------------ inputs
\* The names the callers give (name is a required field).
Names(model) == IF model = "Genre" THEN {"a", "b"} ELSE {"a"}
\* The ids a caller gives: ints for Genre, ints and the str "a" for the others.
GivenIds(model) ==
  {IntId(n) : n \in 0..MaxId} \cup (IF model = "Genre" THEN {} ELSE {StrId(<<Ord.a>>)})
\* The keyword arguments of the entities the callers build.
Datas(model) ==
  LET named == {[k \in {"name"} |-> n] : n \in Names(model)}
      withId == named \cup {Put(d, "id_", i) : d \in named, i \in GivenIds(model)}
  IN withId \cup (IF model = "Genre" THEN {Put(d, "rating", "3") : d \in withId} ELSE {})
\* The values a caller sets a field to.
Values(model, attribute) ==
  IF attribute = "name" THEN Names(model)
  ELSE IF attribute = "rating" THEN {NoneV, "3"}
  ELSE {"3"}
\* The class arguments of get: one class, or the list of both.
ModelLists == {<<m>> : m \in Models} \cup {<<"Genre", "OtherEntity">>}

\* ------------------------------------------------------------------ actions
Set(s, op, err) ==
  /\ entities' = s.entities
  /\ new_entities' = s.new_entities
  /\ db_' = s.db_
  /\ staged' = s.staged
  /\ cache' = s.cache
  /\ live' = s.live
  /\ backend' = backend
  /\ ops' = ops + 1
  /\ called' = [op |-> op, err |-> err]
  /\ UNCHANGED <<is_connection_closed, mergeVars, supplied>>

\* The repository after construction.
Constructed ==
  /\ entities = EmptyDict
  /\ new_entities = EmptyDict
  /\ db_ = {}
  /\ staged = [add |-> <<>>, remove |-> <<>>]
  /\ cache = EmptyDict
  /\ live = <<>>
  /\ ops = 0
  /\ called = [op |-> "init", err |-> "ok"]
  /\ is_connection_closed = FALSE
  /\ supplied = <<>>

\* A repository of either backend, and no run of Entity.merge.
Init ==
  /\ backend \in {"fake", "tinydb"}
  /\ Constructed
  /\ merge_self = NoVal
  /\ merge_other = NoVal
  /\ merge_old = NoVal
  /\ merge_ret = NoVal

\* The state a public call that ended as r leaves.
Done(r, op) == Set(r.st, op, r.err)

\* The end of an add, within the bound on the ids: no int id_ above MaxId
\* is given.
Added(r) ==
  /\ r.err = "ok" => (isinstance_int(r.val.id_) => r.val.id_[2] <= MaxId)
  /\ Done(r, "add")

\* entity = Model(**data); repo.add(entity, merge)
Add(model, data, merging) ==
  /\ ops < MaxOps
  /\ Added(add(caller_new(St, __init__(model, data)), merging))

\* repo.add(entity, merge) of the entity the caller holds already
AddAgain(merging) ==
  /\ ops < MaxOps
  /\ live # <<>>
  /\ Done(add(St, merging), "add")

\* entity.attribute = value
SetAttr(attribute, value) ==
  /\ ops < MaxOps
  /\ live # <<>>
  /\ attribute \in Fields(live[1].model)
  /\ value \in Values(live[1].model, attribute)
  /\ Set(caller_set(St, attribute, value), "setattr", "ok")

\* repo.delete(Model(id_=id, ...))
Delete(model, id) ==
  /\ ops < MaxOps
  /\ Done(delete(St, __init__(model, Put([k \in {"name"} |-> "a"], "id_", id))), "delete")

Get(id, models) ==
  /\ ops < MaxOps
  /\ Done(get(St, id, models), "get")

All(model) ==
  /\ ops < MaxOps
  /\ Done(all(St, model), "all")

Last(model) ==
  /\ ops < MaxOps
  /\ Done(last(St, model), "last")

First(model) ==
  /\ ops < MaxOps
  /\ Done(first(St, model), "first")

Commit ==
  /\ ops < MaxOps
  /\ Set(commit(St), "commit", "ok")

Empty ==
  /\ ops < MaxOps
  /\ Set(empty(St), "empty", "ok")

Next ==
  \/ \E model \in Models : \E data \in Datas(model) : \E merging \in BOOLEAN :
       Add(model, data, merging)
  \/ \E merging \in BOOLEAN : AddAgain(merging)
  \/ \E attribute \in {"name", "rating", "description"} :
       \E value \in {"a", "b", NoneV, "3"} : SetAttr(attribute, value)
  \/ \E model \in Models : \E id \in GivenIds(model) : Delete(model, id)
  \/ \E models \in ModelLists : \E id \in GivenIds("OtherEntity") : Get(id, models)
  \/ \E model \in Models : All(model)
  \/ \E model \in Models : Last(model)
  \/ \E model \in Models : First(model)
  \/ Commit
  \/ Empty

Spec == Init /\ [][Next]_vars

\* The calls that write: the runs a repository is filled, emptied and
\* committed by, with no read in between.
NextWrites ==
  \/ \E model \in Models : \E data \in Datas(model) : \E merging \in BOOLEAN :
       Add(model, data, merging)
  \/ \E model \in Models : \E id \in GivenIds(model) : Delete(model, id)
  \/ Commit
  \/ Empty

SpecWrites == Init /\ [][NextWrites]_vars

\* ------------------------------------------------- close and is_closed
\* A close that raises on a repository that is closed already: the fault C24
\* is told from.
close_once(b, closed) == [err |-> IF closed THEN "ValueError" ELSE "ok", closed |-> TRUE]

\* FakeRepository.close sets the flag; TinyDBRepository.close closes db_,
\* whose storage closes its file (closing a closed file is no error):
\* [err, closed].
close(b, closed) == [err |-> "ok", closed |-> TRUE]

\* The property is_closed of the two backends.  TinyDB's reads
\* self.db_.tables(): the read of a closed storage file raises ValueError.
is_closed(b, closed) ==
  IF b = "fake" THEN closed ELSE (IF closed THEN "ValueError" ELSE "ok") = "ValueError"

\* repo.close()
Close ==
  /\ ops < MaxOps
  /\ is_connection_closed' = close(backend, is_connection_closed).closed
  /\ called' = [op |-> "close", err |-> close(backend, is_connection_closed).err]
  /\ ops' = ops + 1
  /\ UNCHANGED <<backend, entities, new_entities, db_, staged, cache, live, mergeVars,
               supplied>>

\* The runs of a repository that is filled, committed and closed; a closed
\* repository is closed again or left alone, no other call is made on it.
NextClose ==
  \/ /\ ~is_connection_closed
     /\ \E model \in Models : \E data \in Datas(model) : Add(model, data, FALSE)
  \/ ~is_connection_closed /\ Commit
  \/ Close

SpecClose == Init /\ [][NextClose]_vars

\* ------------------------------------------- the runs of a Cache of its own
\* A Cache used as the unit tests use it: the caller builds ListEntity
\* objects, adds them to the cache, removes them from it, and changes the
\* object it holds; snapshots of OtherEntity objects share the cache.
\*
\* In these runs the field elements holds a list object, [oid, items]: oid
\* tells the objects apart, items are the strings in it.  entity.copy() is
\* a shallow copy (BaseModel.copy with deep=False): the snapshot is a new
\* object whose fields hold the same objects, so the snapshot's elements and
\* the entity's are one list until either field is assigned a new list.
ListObj(oid, items) == [oid |-> oid, items |-> items]

\* The longest list the caller builds.
MaxLen == 2

\* entity.dict() compared by ==: a list is compared by its items.
ListValues(entity) ==
  [entity EXCEPT !.attrs = [f \in DOMAIN entity.attrs |->
                              IF f = "elements" THEN entity.attrs[f].items
                              ELSE entity.attrs[f]]]

\* Cache.entity_has_not_changed on entities that hold list objects: the
\* entity and every snapshot are read that way.
list_entity_has_not_changed(c, entity) ==
  entity_has_not_changed(
    [m \in DOMAIN c |-> [i \in DOMAIN c[m] |-> ListValues(c[m][i])]],
    ListValues(entity))

\* entity.elements.append(x): the list object changes in place, in the
\* entity and in every snapshot that holds the same list object; __setattr__
\* is not called.
append_to(entity, oid, x) ==
  IF "elements" \in DOMAIN entity.attrs /\ entity.attrs["elements"].oid = oid
  THEN [entity EXCEPT !.attrs["elements"].items = Append(@, x)]
  ELSE entity
caller_append(s, x) ==
  [s EXCEPT
     !.live = <<append_to(s.live[1], s.live[1].attrs["elements"].oid, x)>>,
     !.cache = [m \in DOMAIN s.cache |-> [i \in DOMAIN s.cache[m] |->
                  append_to(s.cache[m][i], s.live[1].attrs["elements"].oid, x)]]]

\* The lists of the ListEntity objects built.
ElementLists == {<<>>, <<"a">>}

\* entity = ListEntity(**data); cache.add(entity).  The list of the new
\* entity is a new object (oid: the number of the call).
CacheAddNew(data) ==
  /\ ops < MaxOps
  /\ Set([St EXCEPT
            !.live = <<__init__("ListEntity",
                                [data EXCEPT !.elements = ListObj(ops + 1, @)])>>,
            !.cache = cache_add1(cache,
                        __init__("ListEntity",
                                 [data EXCEPT !.elements = ListObj(ops + 1, @)]))],
         "cache.add", "ok")

\* cache.add(OtherEntity(id_=n, name="a")), an object the caller does not
\* keep
CacheAddOther(n) ==
  /\ ops < MaxOps
  /\ Set([St EXCEPT !.cache = cache_add1(cache, __init__("OtherEntity",
                                 [id_ |-> IntId(n), name |-> "a"]))],
         "cache.add", "ok")

\* cache.remove(removed), removed a list of the entity the caller holds
CacheRemove(removed) ==
  /\ ops < MaxOps
  /\ Set([St EXCEPT !.cache = cache_remove(cache, removed)], "cache.remove", "ok")

\* cache.add(entity) of the entity the caller holds
CacheAdd ==
  /\ ops < MaxOps
  /\ live # <<>>
  /\ Set([St EXCEPT !.cache = cache_add1(cache, live[1])], "cache.add", "ok")

\* entity.name = value
CacheSetName(value) ==
  /\ ops < MaxOps
  /\ live # <<>>
  /\ Set(caller_set(St, "name", value), "setattr", "ok")

\* entity.elements = items, a new list object
CacheSetElements(items) ==
  /\ ops < MaxOps
  /\ live # <<>>
  /\ Set(caller_set(St, "elements", ListObj(ops + 1, items)), "setattr", "ok")

\* entity.elements.append(x)
CacheAppend(x) ==
  /\ ops < MaxOps
  /\ live # <<>>
  /\ Len(live[1].attrs["elements"].items) < MaxLen
  /\ Set(caller_append(St, x), "append", "ok")

NextCache ==
  \/ \E n \in 0..MaxId, name \in {"a", "b"}, items \in ElementLists :
       CacheAddNew([id_ |-> IntId(n), name |-> name, elements |-> items])
  \/ \E n \in 0..MaxId : CacheAddOther(n)
  \/ CacheAdd
  \/ live # <<>> /\ \E removed \in {<<live[1]>>, <<live[1], live[1]>>} : CacheRemove(removed)
  \/ \E value \in {"a", "b"} : CacheSetName(value)
  \/ \E items \in ElementLists : CacheSetElements(items)
  \/ \E x \in {"a", "b"} : CacheAppend(x)

SpecCache == Init /\ [][NextCache]_vars

\* ------------------------------------------- the runs of the comparisons
\* The caller builds entities with int and str ids and collects them in a
\* list, in any order, each id once: the ids of the unit tests of
\* the comparisons (1, 2, 10 and "a") and the string "1a".  (A string that
\* reads as an int is no str id_ of a built entity: the field is declared
\* Union[int, str, ...] and the class turns it into the int.)
MaxSupplied == 3

\* entities.append(Entity(id_=id, name="a"))
Supply(id) ==
  /\ Len(supplied) < MaxSupplied
  /\ \A i \in DOMAIN supplied : supplied[i].id_ # id
  /\ supplied' = Append(supplied, __init__("OtherEntity", [id_ |-> id, name |-> "a"]))
  /\ UNCHANGED <<repoVars, mergeVars>>

NextOrder ==
  \E id \in {IntId(1), IntId(2), IntId(10), StrId(<<Ord.a>>),
             StrId(<<Ord.zero + 1, Ord.a>>)} :
    Supply(id)

SpecOrder == Init /\ [][NextOrder]_vars

\* ------------------------------------------------ the runs of Entity.merge
\* The caller builds two entities, of any classes and ids; the first may be
\* of the base class.
InitMerge ==
  /\ backend = "fake"
  /\ Constructed
  /\ \E m1 \in Models \cup {BaseModel} : \E m2 \in Models :
       /\ merge_self \in {__init__(m1, data) : data \in Datas(m1)}
       /\ merge_other \in {__init__(m2, data) : data \in Datas(m2)}
  /\ merge_old = NoVal
  /\ merge_ret = NoVal

\* other.attribute = value
MergeSetOther(attribute, value) ==
  /\ merge_ret = NoVal
  /\ attribute \in Fields(merge_other.model)
  /\ value \in Values(merge_other.model, attribute)
  /\ merge_other' = __setattr__(merge_other, attribute, value)
  /\ UNCHANGED <<repoVars, merge_self, merge_old, merge_ret, supplied>>

\* other.clear_defined_values(), as done on the entities the repository returns
MergeClearOther ==
  /\ merge_ret = NoVal
  /\ merge_other' = clear_defined_values(merge_other)
  /\ UNCHANGED <<repoVars, merge_self, merge_old, merge_ret, supplied>>

\* self.merge(other): self is updated in place and returned.
MergeCall ==
  /\ merge_ret = NoVal
  /\ LET r == merge(merge_self, merge_other)
     IN /\ merge_self' = r.self
        /\ merge_ret' = [err |-> r.err, val |-> IF r.err = "ok" THEN r.self ELSE NoVal]
  /\ merge_old' = <<merge_self, merge_other>>
  /\ UNCHANGED <<repoVars, merge_other, supplied>>

NextMerge ==
  \/ \E attribute \in {"name", "rating", "description"} :
       \E value \in {"a", "b", NoneV, "3"} : MergeSetOther(attribute, value)
  \/ MergeClearOther
  \/ MergeCall

SpecMerge == InitMerge /\ [][NextMerge]_vars

\* ------------------------------------------- the runs of Repository.search
\* The values searched for: [type, text].
StrValue(text) == [type |-> "str", text |-> text]

\* The values a field is searched for; "inexistent" is a field of no class.
SearchValues(key) ==
  IF key = "name"
  THEN {StrValue(<<Ord.a>>), StrValue(<<Ord.caret, Ord.A>>),
        StrValue(<<Ord.dot, Ord.b>>), StrValue(<<Ord.x>>)}
  ELSE IF key = "rating" THEN {[type |-> "int", text |-> <<Ord.three>>], StrValue(<<Ord.three>>)}
  ELSE IF key = "elements" THEN {StrValue(<<Ord.b>>), StrValue(<<Ord.x>>)}
  ELSE IF key = "active" THEN {[type |-> "bool", text |-> Text("True")]}
  ELSE IF key = "id_" THEN {[type |-> "int", text |-> <<Ord.zero>>]}
  ELSE {StrValue(<<Ord.a>>)}

\* The fields of a search: none, one or two of the fields of the class and
\* of "inexistent".
OneField(model) ==
  UNION {{Put(EmptyDict, key, value) : value \in SearchValues(key)} :
           key \in Schema(model) \cup {"inexistent"}}
SearchFields(model) ==
  {EmptyDict} \cup
  {[k \in (DOMAIN f) \cup (DOMAIN g) |-> IF k \in DOMAIN f THEN f[k] ELSE g[k]] :
     f \in OneField(model), g \in OneField(model)}

\* repo.search(fields, model)
Search(fields, model) ==
  /\ ops < MaxOps
  /\ Done(search(St, fields, model), "search")

\* The callers of search build their entities each with its id_.
NextSearch ==
  \/ \E data \in {[id_ |-> IntId(0), name |-> "a", rating |-> "3"],
                   [id_ |-> IntId(1), name |-> "Ab", rating |-> "33"],
                   [id_ |-> IntId(1), name |-> "b"]} : Add("Genre", data, FALSE)
  \/ Add("OtherEntity", [id_ |-> IntId(0), name |-> "a"], FALSE)
  \/ \E data \in {[id_ |-> IntId(0), name |-> "a", elements |-> <<"a", "b">>],
                   [id_ |-> IntId(1), name |-> "b", elements |-> <<"a">>]} :
       Add("ListEntity", data, FALSE)
  \/ \E data \in {[id_ |-> IntId(0), name |-> "a", active |-> "True"],
                   [id_ |-> IntId(1), name |-> "a", active |-> "False"]} :
       Add("BoolEntity", data, FALSE)
  \/ Commit
  \/ \E model \in SearchModels : \E fields \in SearchFields(model) : Search(fields, model)

SpecSearch == Init /\ [][NextSearch]_vars

\* ------------------------------------------- what a state holds, observed
\* The committed entities of a class with an id_, read off the store itself.
Stored(s, model, id) ==
  IF s.backend = "fake"
  THEN (IF model \in DOMAIN s.entities /\ id \in DOMAIN s.entities[model]
        THEN {s.entities[model][id].obj} ELSE {})
  ELSE {_build_entity(d, model) :
          d \in {x \in s.db_ : x["model_type_"] = lower(model) /\ x["id_"] = id}}

\* The entities of a class with an id_ that wait for the next commit.
Staged(s, model, id) ==
  IF s.backend = "fake"
  THEN (IF model \in DOMAIN s.new_entities /\ id \in DOMAIN s.new_entities[model]
        THEN {s.new_entities[model][id].obj} ELSE {})
  ELSE {s.staged.add[i].obj : i \in {j \in DOMAIN s.staged.add :
          s.staged.add[j].obj.model = model /\ s.staged.add[j].obj.id_ = id}}

\* Every id_ the runs can meet: the given ones and the next auto-increment.
AllIds == {IntId(n) : n \in 0..(MaxId + 1)} \cup {StrId(<<Ord.a>>)}

\* The writes that wait for the next commit, by value.  A FakeRepository with
\* nothing staged (new_entities empty) will commit its entities as they are.
StagedView(s) ==
  IF s.backend = "fake"
  THEN LET ne == IF s.new_entities = EmptyDict THEN s.entities ELSE s.new_entities
       IN [m \in DOMAIN ne |-> [i \in DOMAIN ne[m] |-> ne[m][i].obj]]
  ELSE [add |-> [i \in DOMAIN s.staged.add |-> s.staged.add[i].obj],
        remove |-> s.staged.remove]

\* The committed store, by value.
StoreView(s) ==
  IF s.backend = "fake"
  THEN [m \in DOMAIN s.entities |-> [i \in DOMAIN s.entities[m] |-> s.entities[m][i].obj]]
  ELSE s.db_

\* The keyword arguments that give an id_.
HasId(data) == "id_" \in DOMAIN data

\* ------------------------------------------------------------------ claims
\* C1 (round trip): from any reachable state, for any entity e with an
\* assigned id, add(e); commit(); get(e.id_, type(e)) returns an entity
\* equal to e.
C1_RoundTrip ==
  \A model \in Models : \A data \in Datas(model) : HasId(data) =>
    LET e == __init__(model, data)
        r == add(caller_new(St, e), FALSE)
        g == get(commit(r.st), e.id_, <<model>>)
    IN r.err = "ok" /\ g.err = "ok" /\ Eq(g.val, e)

\* C2 (idempotent add): for an entity e that is not stored yet or is already
\* committed, add(e); add(e); commit(), with either value of merge, leaves
\* exactly one stored record of e's class and id_, and it is equal to e.
C2_IdempotentAdd ==
  \A model \in Models : \A data \in Datas(model) : \A merging \in BOOLEAN :
    LET e == __init__(model, data)
        old == Stored(St, model, e.id_)
        r1 == add(caller_new(St, e), merging)
        r2 == add(caller_new(r1.st, e), merging)
        now == Stored(commit(r2.st), model, e.id_)
    IN (HasId(data) /\ (old = {} \/ \E o \in old : Eq(o, e))) =>
         /\ r1.err = "ok"
         /\ r2.err = "ok"
         /\ Cardinality(now) = 1
         /\ \A o \in now : Eq(o, e)

\* C3 (staged adds are invisible until commit): after add(e) without commit,
\* get raises EntityNotFoundError and all(type(e)) does not list e when no
\* version of e was committed, and get returns the committed version with its
\* old value when one was; after the next commit, get returns the new value.
C3_StagedAddInvisible ==
  \A model \in Models : \A data \in Datas(model) : HasId(data) =>
    LET e == __init__(model, data)
        old == Stored(St, model, e.id_)
        r == add(caller_new(St, e), FALSE)
        g == get(r.st, e.id_, <<model>>)
        listed == all(r.st, model).val
        after == get(commit(r.st), e.id_, <<model>>)
    IN /\ r.err = "ok"
       /\ old = {} => /\ g.err = "EntityNotFoundError"
                      /\ \A i \in DOMAIN listed : listed[i].id_ # e.id_
       /\ old # {} => g.err = "ok" /\ \E o \in old : Eq(g.val, o)
       /\ after.err = "ok" /\ Eq(after.val, e)

\* C4 (deletes are staged): after delete(e) of a committed entity and before
\* commit, get still returns e; after commit, get raises EntityNotFoundError
\* and all(type(e)) does not list e.
C4_DeleteStaged ==
  \A model \in Models : \A id \in AllIds : \A e \in Stored(St, model, id) :
    LET d == delete(St, e)
        g == get(d.st, id, <<model>>)
        c == commit(d.st)
        after == get(c, id, <<model>>)
        listed == all(c, model).val
    IN /\ d.err = "ok"
       /\ g.err = "ok" /\ Eq(g.val, e)
       /\ after.err = "EntityNotFoundError"
       /\ \A i \in DOMAIN listed : listed[i].id_ # id

\* A committed entity has been deleted and the delete waits for the commit:
\* the store holds it still, the staging buffer has let go of it.
C4_Witness ==
  /\ called = [op |-> "delete", err |-> "ok"]
  /\ \E model \in Models : \E id \in AllIds :
       /\ Stored(St, model, id) # {}
       /\ IF backend = "fake"
          THEN model \in DOMAIN new_entities /\ id \notin DOMAIN new_entities[model]
          ELSE \E i \in DOMAIN staged.remove :
                 staged.remove[i].model = model /\ staged.remove[i].id_ = id
       /\ Stored(commit(St), model, id) = {}

\* C5 (delete of a missing entity): in every reachable state, delete(e) of an
\* entity whose class and id_ are neither committed nor staged raises
\* EntityNotFoundError, other entities of the class or not, and leaves the
\* committed store and the staged writes as they were.
C5_DeleteMissingRaises ==
  \A model \in Models : \A id \in GivenIds(model) :
    (Stored(St, model, id) = {} /\ Staged(St, model, id) = {}) =>
      LET e == __init__(model, Put([k \in {"name"} |-> "a"], "id_", id))
          d == delete(St, e)
      IN /\ d.err = "EntityNotFoundError"
         /\ StoreView(d.st) = StoreView(St)
         /\ StagedView(d.st) = StagedView(St)

\* The entities of a class that exist: the committed and the staged ones.
Existing(s, model) ==
  UNION {Stored(s, model, id) \cup Staged(s, model, id) : id \in AllIds}

\* C6 (auto-increment): for the int-identified class Genre, add of an entity
\* with a negative id_ gives it 1 + the greatest id_ of the committed and
\* staged Genres, 0 when there is none, whatever OtherEntity holds; the id_
\* given is the id_ of no Genre committed or staged before.
C6_AutoIncrement ==
  \A data \in Datas("Genre") : ~HasId(data) =>
    LET e == __init__("Genre", data)
        ids == {o.id_[2] : o \in Existing(St, "Genre")}
        r == add(caller_new(St, e), FALSE)
    IN /\ r.err = "ok"
       /\ r.val.id_ = IntId(IF ids = {} THEN 0
                          ELSE (CHOOSE n \in ids : \A k \in ids : k <= n) + 1)
       /\ r.val.id_[2] \notin ids

\* C7 (auto-increment on a non-int id_): when the greatest existing
\* OtherEntity has a str id_, add of an OtherEntity with a negative id_ raises
\* AutoIncrementError, gives the entity no id_ and stages nothing.
C7_AutoIncrementError ==
  \A data \in Datas("OtherEntity") : ~HasId(data) =>
    LET e == __init__("OtherEntity", data)
        r == add(caller_new(St, e), FALSE)
    IN (\E g \in Existing(St, "OtherEntity") :
          /\ ~isinstance_int(g.id_)
          /\ \A o \in Existing(St, "OtherEntity") : ~__gt__(o, g)) =>
         /\ r.err = "AutoIncrementError"
         /\ r.st.live = <<e>>
         /\ StoreView(r.st) = StoreView(St)
         /\ StagedView(r.st) = StagedView(St)

\* The committed entities with an id_ among the classes asked for.
StoredAmong(s, id, models) ==
  UNION {{<<m, o>> : o \in Stored(s, m, id)} : m \in Range(models)}

\* C8 (get): get(id, models) returns the stored entity when exactly one
\* stored entity of the classes has the id_, raises EntityNotFoundError when
\* none has, and TooManyEntitiesError when more than one has.
C8_GetOutcome ==
  \A models \in ModelLists : \A id \in AllIds :
    LET hits == StoredAmong(St, id, models)
        g == get(St, id, models)
    IN /\ Cardinality(hits) = 1 =>
            g.err = "ok" /\ \E h \in hits : g.val.model = h[1] /\ Eq(g.val, h[2])
       /\ Cardinality(hits) = 0 => g.err = "EntityNotFoundError"
       /\ Cardinality(hits) > 1 => g.err = "TooManyEntitiesError"

\* Two classes hold an entity with the same id_ and a third id_ is free: in
\* this state get finds one, none or too many, by the classes and id_ asked.
C8_Witness ==
  \E id \in AllIds : \E free \in AllIds :
    /\ Cardinality(StoredAmong(St, id, <<"Genre", "OtherEntity">>)) = 2
    /\ get(St, id, <<"Genre", "OtherEntity">>).err = "TooManyEntitiesError"
    /\ get(St, id, <<"Genre">>).err = "ok"
    /\ StoredAmong(St, free, <<"Genre">>) = {}
    /\ get(St, free, <<"Genre">>).err = "EntityNotFoundError"

\* C9 (merge frame): a.merge(b) on entities of one class and id_ sets on a
\* the attributes that are in b's defined values and not in _skip_on_merge,
\* to b's value of them; every other attribute of a keeps its value; b is
\* not modified; a is what merge returns.
C9_MergeFrame ==
  (merge_ret # NoVal /\ merge_ret.err = "ok") =>
    LET a == merge_old[1]
        b == merge_old[2]
    IN /\ \A x \in Fields(a.model) :
            merge_self.attrs[x] =
              IF x \in DOMAIN b.dv /\ x \notin _skip_on_merge(a.model)
              THEN b.attrs[x] ELSE a.attrs[x]
       /\ merge_self.id_ = a.id_
       /\ merge_other = b
       /\ merge_ret.val = merge_self

\* A merge has set an attribute b defines to a new value and has kept an
\* attribute b does not define, on which a and b differ.
C9_Witness ==
  /\ merge_ret # NoVal
  /\ merge_ret.err = "ok"
  /\ LET a == merge_old[1]
         b == merge_old[2]
     IN \E x \in Fields(a.model) : \E y \in Fields(a.model) :
          /\ x \in DOMAIN b.dv /\ x \notin _skip_on_merge(a.model)
          /\ a.attrs[x] # b.attrs[x] /\ merge_self.attrs[x] = b.attrs[x]
          /\ y \notin DOMAIN b.dv
          /\ a.attrs[y] # b.attrs[y] /\ merge_self.attrs[y] = a.attrs[y]

\* The Genres a caller builds with a rating it gave explicitly.
RatedGenres ==
  {__setattr__(__init__("Genre", data), "rating", v) :
     data \in {d \in Datas("Genre") : HasId(d)}, v \in Values("Genre", "rating")}

C11_MergeMismatchRaises ==
  (/\ merge_ret # NoVal
   /\ \/ merge_old[1].model # merge_old[2].model
      \/ merge_old[1].id_ # merge_old[2].id_)
  => /\ merge_ret.err = "ValueError"
     /\ merge_self = merge_old[1]
     /\ merge_other = merge_old[2]

\* C12 (merge on add): when an entity of e's class and id_ is stored,
\* add(e, merge=True) returns stored.merge(e), and after commit() the
\* stored entity has e's value for every attribute e defines outside
\* _skip_on_merge and the value that was stored for every other attribute.
C12_AddMerges ==
  \A model \in Models : \A data \in Datas(model) : HasId(data) =>
    LET e == __init__(model, data)
        r == add(caller_new(St, e), TRUE)
        now == Stored(commit(r.st), model, e.id_)
    IN \A stored \in Stored(St, model, e.id_) :
         /\ r.err = "ok"
         /\ Eq(r.val, merge(stored, e).self)
         /\ now # {}
         /\ \A o \in now : \A x \in Fields(model) :
              o.attrs[x] = IF x \in DOMAIN e.dv /\ x \notin _skip_on_merge(model)
                           THEN e.attrs[x] ELSE stored.attrs[x]

\* C13 as stated (merge with nothing stored): when no entity of e's class
\* and id_ is stored, add(e, merge=True) raises no error and leaves the same
\* store, staged writes, cache and returned entity as add(e, merge=False).
C13_MergeNothingStored ==
  \A model \in Models : \A data \in Datas(model) :
    LET e == __init__(model, data)
        merged == add(caller_new(St, e), TRUE)
        plain == add(caller_new(St, e), FALSE)
    IN Stored(St, model, e.id_) = {} => merged.err = "ok" /\ merged = plain

\* C13 amended: when no entity of e's class and id_ is stored,
\* add(e, merge=True) ends as add(e, merge=False) does (same error if any,
\* same store, staged writes, cache and returned entity), and raises no
\* error when e was given its id_.
C13_MergeNothingStoredAsPlain ==
  \A model \in Models : \A data \in Datas(model) :
    LET e == __init__(model, data)
        merged == add(caller_new(St, e), TRUE)
        plain == add(caller_new(St, e), FALSE)
    IN Stored(St, model, e.id_) = {} =>
         /\ merged = plain
         /\ HasId(data) => merged.err = "ok"

\* Nothing of e's class and id_ is stored or staged, and add(e, merge=True)
\* stages e; for an OtherEntity without id_ both adds raise AutoIncrementError.
C13_Witness ==
  /\ \E model \in Models : \E data \in Datas(model) :
       LET e == __init__(model, data)
           merged == add(caller_new(St, e), TRUE)
       IN /\ HasId(data)
          /\ Stored(St, model, e.id_) = {}
          /\ Staged(St, model, e.id_) = {}
          /\ merged.err = "ok"
          /\ \E o \in Staged(merged.st, model, e.id_) : Eq(o, e)
  /\ \E data \in Datas("OtherEntity") :
       /\ ~HasId(data)
       /\ add(caller_new(St, __init__("OtherEntity", data)), TRUE).err = "AutoIncrementError"

\* The committed entities of a class, read off the store itself.
Committed(s, model) == UNION {Stored(s, model, id) : id \in AllIds}

\* C14 (all): all(model) returns the committed entities of model and nothing
\* else, each once, every entity before the ones with a greater id_; it
\* returns the empty list when none is committed; and a second all(model)
\* right after it returns an equal list.
C14_All ==
  \A model \in Models :
    LET r == all(St, model)
        again == all(r.st, model)
    IN /\ r.err = "ok"
       /\ Range(r.val) = Committed(St, model)
       /\ Len(r.val) = Cardinality(Committed(St, model))
       /\ \A i \in DOMAIN r.val : \A j \in DOMAIN r.val :
            i < j => __lt__(r.val[i], r.val[j]) /\ r.val[i].id_ # r.val[j].id_
       /\ Committed(St, model) = {} => r.val = <<>>
       /\ again.err = "ok"
       /\ Len(again.val) = Len(r.val)
       /\ \A i \in DOMAIN r.val : Eq(again.val[i], r.val[i])

\* Two entities of a class are committed and all lists the two, the one
\* with the lesser id_ first.
C14_Witness ==
  \E model \in Models :
    /\ Cardinality(Committed(St, model)) = 2
    /\ Len(all(St, model).val) = 2
    /\ __lt__(all(St, model).val[1], all(St, model).val[2])
    /\ called.op = "commit"

\* C15 (last): last(model) returns an entity of the class that is committed
\* or staged and that none of them exceeds, whatever the other classes
\* hold; when no entity of the class is committed or staged it raises
\* EntityNotFoundError and no other error.
C15_Last ==
  \A model \in Models :
    LET r == last(St, model)
    IN IF Existing(St, model) = {}
       THEN r.err = "EntityNotFoundError"
       ELSE /\ r.err = "ok"
            /\ \E o \in Existing(St, model) : Eq(o, r.val)
            /\ \A o \in Existing(St, model) : ~__gt__(o, r.val)

\* C16 (first): first(model) returns an entity of the class that is
\* committed or staged and that exceeds none of them, and it raises
\* EntityNotFoundError only when no entity of the class is committed or
\* staged.
C16_First ==
  \A model \in Models :
    LET r == first(St, model)
    IN IF Existing(St, model) = {}
       THEN r.err = "EntityNotFoundError"
       ELSE /\ r.err = "ok"
            /\ \E o \in Existing(St, model) : Eq(o, r.val)
            /\ \A o \in Existing(St, model) : ~__lt__(o, r.val)

\* C17 (search without match): search(fields, model) returns the empty list
\* and raises no error when no entity of the class is committed, when a
\* field of fields is a field of no entity, and when a value of fields
\* occurs in no entity.
C17_SearchNoMatch ==
  \A model \in SearchModels : \A fields \in SearchFields(model) :
    LET r == search(St, fields, model)
    IN /\ r.err = "ok"
       /\ (\/ Committed(St, model) = {}
           \/ "inexistent" \in DOMAIN fields
           \/ \E key \in DOMAIN fields : fields[key].text = <<Ord.x>>)
          => r.val = <<>>

\* C18 (search is a conjunction): search(fields, model) returns, sorted,
\* the committed entities of the class that satisfy every field of fields:
\* a part of all(model) and of no other class, which is the entities that
\* the search for each single field of fields returns, so that a query with
\* one more field returns no entity the query without it does not return.
C18_SearchAnd ==
  \A model \in SearchModels : \A fields \in SearchFields(model) :
    LET r == search(St, fields, model)
        single(key) == search(St, Put(EmptyDict, key, fields[key]), model)
    IN /\ r.err = "ok"
       /\ Range(r.val) \subseteq Range(all(St, model).val)
       /\ Range(r.val) \subseteq Committed(St, model)
       /\ \A i \in DOMAIN r.val : \A j \in DOMAIN r.val :
            i < j => __lt__(r.val[i], r.val[j])
       /\ Range(r.val) =
            {e \in Range(all(St, model).val) :
               \A key \in DOMAIN fields : e \in Range(single(key).val)}
       /\ \A key \in DOMAIN fields :
            Range(r.val) \subseteq Range(single(key).val)

\* C19 (matching per type of value): the search for one field returns the
\* committed entities of the class whose attribute matches the value: for a
\* list attribute, some element of it is matched by the value as a regular
\* expression; otherwise, for a str value, the value as a regular expression
\* matches str(attribute), whatever the case of the letters; for an int or
\* bool value, the attribute is equal to the value.
C19_SearchMatching ==
  \A model \in SearchModels : \A fields \in OneField(model) :
    \A key \in (DOMAIN fields) \cap Schema(model) :
      LET value == fields[key]
          matches(d) ==
            IF ValType(d, key) = "array"
            THEN \E i \in DOMAIN d[key] : re_search(value.text, Text(d[key][i]))
            ELSE IF value.type = "str"
            THEN re_search_ignorecase(value.text, ValText(d, key))
            ELSE ValType(d, key) = value.type /\ ValText(d, key) = value.text
          r == search(St, fields, model)
      IN /\ r.err = "ok"
         /\ Range(r.val) = {e \in Committed(St, model) : matches(entity_dict(e))}

\* C20 (reads clear the defined values): every entity that get, all and
\* search return has empty _defined_values.
C20_ReadsClearDefinedValues ==
  /\ \A models \in ModelLists : \A id \in AllIds :
       LET g == get(St, id, models)
       IN g.err = "ok" => g.val.dv = EmptyDict
  /\ \A model \in Models :
       /\ \A e \in Range(all(St, model).val) : e.dv = EmptyDict
       /\ \A fields \in SearchFields(model) :
            \A e \in Range(search(St, fields, model).val) : e.dv = EmptyDict


\* The cache holds a snapshot of x's class and id_ that is equal to x.
CacheHolds(c, x) ==
  /\ cache_get(c, x).err = "ok"
  /\ Eq(cache_get(c, x).val, x)

\* C21 (the cache reflects the last known value): after add(e) returns r the
\* cache holds a snapshot equal to r, and after get, all, search, last or
\* first returns an entity x the cache holds a snapshot equal to x, in
\* every reachable state, an older snapshot of the class and id_ being
\* cached or not.
C21_CacheReflects ==
  /\ \A model \in Models : \A data \in Datas(model) : \A merging \in BOOLEAN :
       LET r == add(caller_new(St, __init__(model, data)), merging)
       IN r.err = "ok" => CacheHolds(r.st.cache, r.val)
  /\ \A model \in Models : \A id \in AllIds :
       LET g == get(St, id, <<model>>)
       IN g.err = "ok" => CacheHolds(g.st.cache, g.val)
  /\ \A model \in Models :
       LET a == all(St, model)
           f == search(St, Put(EmptyDict, "name", StrValue(<<Ord.a>>)), model)
           l == last(St, model)
           m == first(St, model)
       IN /\ \A i \in DOMAIN a.val : CacheHolds(a.st.cache, a.val[i])
          /\ \A i \in DOMAIN f.val : CacheHolds(f.st.cache, f.val[i])
          /\ l.err = "ok" => CacheHolds(l.st.cache, l.val)
          /\ m.err = "ok" => CacheHolds(m.st.cache, m.val)


\* ---------------------------------------------- add of any argument
\* What a caller passes to add: an entity <<"entity", e>>, a list of such
\* arguments <<"list", items>>, or an object that is neither (the int 1,
\* the str "a").  isinstance(entities, EntityModel) and
\* isinstance(entities, list) read the first component.

\* Repository.add of any argument: an entity is added, the items of a list
\* are added one after the other (the first error ends the call, what was
\* added before it stays), anything else raises ValueError.
RECURSIVE add_entities(_, _, _)
RECURSIVE add_list(_, _, _, _)
add_list(s, items, merging, updated_entities) ==
  IF items = <<>> THEN Ret(s, "ok", updated_entities)
  ELSE LET r == add_entities(s, Head(items), merging)
       IN IF r.err # "ok" THEN Ret(r.st, r.err, NoVal)
          ELSE add_list(r.st, Tail(items), merging, Append(updated_entities, r.val))
add_entities(s, x, merging) ==
  IF x[1] = "entity" THEN add(caller_new(s, x[2]), merging)
  ELSE IF x[1] = "list" THEN add_list(s, x[2], merging, <<>>)
  ELSE Ret(s, "ValueError", NoVal)

\* C22 (add of a non-entity): add(x) of an x that is neither an entity nor a
\* list of entities raises ValueError and leaves the committed store, the
\* staged writes and the cache as they were.
\* The arguments tried: the objects that are no entity, and the lists that
\* hold one of them, alone or after an entity.
C22_AddNonEntityRaises ==
  LET NotEntities == {IntId(1), StrId(<<Ord.a>>)}
      NotEntitiesNotLists ==
        NotEntities
        \cup {<<"list", <<o>>>> : o \in NotEntities}
        \cup UNION {{<<"list", <<<<"entity", __init__(model, data)>>, IntId(1)>>>> :
                         data \in {d \in Datas(model) : HasId(d)}} : model \in Models}
  IN \A x \in NotEntitiesNotLists : \A merging \in BOOLEAN :
       LET r == add_entities(St, x, merging)
       IN /\ r.err = "ValueError"
          /\ StoreView(r.st) = StoreView(St)
          /\ StagedView(r.st) = StagedView(St)
          /\ r.st.cache = cache


\* Nothing waits for the next commit: new_entities is empty, both lists of
\* staged are.
NothingStaged(s) ==
  IF s.backend = "fake" THEN s.new_entities = EmptyDict
  ELSE s.staged = [add |-> <<>>, remove |-> <<>>]

\* C23 (commit with nothing staged): commit with nothing staged leaves the
\* committed store (and the cache) as it was; a second commit right after a
\* commit changes nothing; after any commit nothing is staged.
C23_CommitNoop ==
  /\ NothingStaged(St) =>
       /\ StoreView(commit(St)) = StoreView(St)
       /\ commit(St).cache = cache
  /\ commit(commit(St)) = commit(St)
  /\ NothingStaged(commit(St))

\* A commit has just been made on a repository that holds entities of both
\* classes and nothing is staged: the next commit is one with nothing staged.
C23_Witness ==
  /\ called = [op |-> "commit", err |-> "ok"]
  /\ NothingStaged(St)
  /\ \A model \in Models : Committed(St, model) # {}


\* C24 (close is idempotent): is_closed is false on a new repository and
\* stays false until the first close; every close, the first and the
\* later ones, raises nothing and leaves is_closed true; once true,
\* is_closed stays true.
C24_CloseIdempotent ==
  /\ ~is_closed(backend, is_connection_closed)
  /\ [][/\ called'.op = "close" =>
             /\ called'.err = "ok"
             /\ is_closed(backend', is_connection_closed')
        /\ called'.op # "close" =>
             is_closed(backend', is_connection_closed')
               = is_closed(backend, is_connection_closed)
        /\ is_closed(backend, is_connection_closed) =>
             is_closed(backend', is_connection_closed')]_vars

\* A repository with a staged entity has been closed by the last call and
\* can be called again: is_closed is true, and a further close of it raises
\* nothing and leaves is_closed true.
C24_Witness ==
  /\ called = [op |-> "close", err |-> "ok"]
  /\ is_closed(backend, is_connection_closed)
  /\ ops < MaxOps
  /\ \E model \in Models : \E id \in AllIds : Staged(St, model, id) # {}
  /\ close(backend, is_connection_closed).err = "ok"
  /\ is_closed(backend, close(backend, is_connection_closed).closed)


Invocations(s) ==
  IF s.backend = "fake"
  THEN Cardinality(UNION {{<<m, i>> : i \in {j \in DOMAIN s.new_entities[m] :
                                               s.new_entities[m][j].alias}} :
                            m \in DOMAIN s.new_entities})
  ELSE Cardinality({i \in DOMAIN s.staged.add : s.staged.add[i].alias})

\* C26 (idempotent short-circuit): for an add(e) that gets to the check of
\* the cache (next_id raised nothing) and ends with the entity m (e, or the
\* stored entity merged with e): when the cache holds a snapshot of m's
\* class and id_ equal to m, _add is not called, the staged writes, the
\* committed store and the cache are unchanged and m is returned; when
\* the cache holds no snapshot or a different one, _add is called exactly
\* once, with m.
C26_ShortCircuit ==
  \A model \in Models : \A data \in Datas(model) : \A merging \in BOOLEAN :
    LET r == add(caller_new(St, __init__(model, data)), merging)
        m == r.val
    IN r.err = "ok" =>
         IF CacheHolds(cache, m)
         THEN /\ Invocations(r.st) = 0
              /\ StoreView(r.st) = StoreView(St)
              /\ StagedView(r.st) = StagedView(St)
              /\ r.st.cache = cache
              /\ r.st.live = <<m>>
         ELSE /\ Invocations(r.st) = 1
              /\ \E o \in Staged(r.st, model, m.id_) : o = m

\* The cache holds the snapshot of a Genre that is stored with another name:
\* add of a Genre equal to the snapshot is skipped, add of a Genre with the
\* stored name calls _add, and so does add of a Genre with no snapshot.
C26_Witness ==
  \E id \in AllIds : \E other \in AllIds : \E stored \in Stored(St, "Genre", id) :
    /\ cache_get(cache, stored).err = "ok"
    /\ ~Eq(cache_get(cache, stored).val, stored)
    /\ Invocations(add(caller_new(St, cache_get(cache, stored).val), FALSE).st) = 0
    /\ Invocations(add(caller_new(St, stored), FALSE).st) = 1
    /\ cache_get(cache, [stored EXCEPT !.id_ = other]).err = "KeyError"
    /\ Invocations(add(caller_new(St, [stored EXCEPT !.id_ = other]), TRUE).st) = 1


\* C27 (cache coherence): in every reachable state, for every snapshot the
\* cache holds, the backend holds an entity of the snapshot's class and id_,
\* committed or staged, that is equal to the snapshot.
C27_CacheCoherence ==
  \A model \in DOMAIN cache : \A id \in DOMAIN cache[model] :
    \E o \in Stored(St, model, id) \cup Staged(St, model, id) : Eq(o, cache[model][id])


\* C28 (re-adding a deleted entity): for an entity e that has its id_,
\* after add(e); commit(); delete(e); commit(), a further add(e); commit()
\* stores e again: get(e.id_, type(e)) returns an entity equal to e and
\* all(type(e)) lists it.
C28_ReAddDeleted ==
  \A model \in Models : \A data \in Datas(model) : HasId(data) =>
    LET e == __init__(model, data)
        added == add(caller_new(St, e), FALSE)
        deleted == delete(commit(added.st), e)
        again == add(commit(deleted.st), FALSE)
        g == get(commit(again.st), e.id_, <<model>>)
        listed == all(commit(again.st), model).val
    IN /\ again.err = "ok"
       /\ g.err = "ok" /\ Eq(g.val, e)
       /\ \E i \in DOMAIN listed : Eq(listed[i], e)


\* C29 (Cache.add is first-write-wins): Cache.add of an entity whose class
\* and id_ have a snapshot leaves the whole cache as it was; Cache.add of
\* an entity whose class and id_ have none inserts a snapshot equal to the
\* entity; in both cases every other entry, those of another class with the
\* same id_ included, is kept as it was and none is added; of two entities
\* of one class and id_ added as a list, the first is kept.
C29_FirstWriteWins ==
  \A model \in Models : \A data \in Datas(model) :
    LET e == __init__(model, data)
        now == cache_add1(cache, e)
    IN /\ cache_get(cache, e).err = "ok" => now = cache
       /\ cache_get(cache, e).err = "KeyError" =>
            /\ cache_get(now, e).err = "ok"
            /\ Eq(cache_get(now, e).val, e)
       /\ \A m \in DOMAIN now : \A i \in DOMAIN now[m] :
            (m # model \/ i # e.id_) =>
              /\ m \in DOMAIN cache
              /\ i \in DOMAIN cache[m]
              /\ now[m][i] = cache[m][i]
       /\ \A m \in DOMAIN cache : \A i \in DOMAIN cache[m] :
            m \in DOMAIN now /\ i \in DOMAIN now[m]
       /\ \A name \in Names(model) :
            cache_add(cache, <<e, __setattr__(e, "name", name)>>) = now

\* The cache holds a Genre and an OtherEntity with the same id_, each with
\* its own name, after an add; another id_ has no snapshot: Cache.add of a
\* Genre with the cached id_ and another name changes nothing, and Cache.add
\* of a Genre with the free id_ inserts it.
C29_Witness ==
  /\ called = [op |-> "add", err |-> "ok"]
  /\ \E id \in AllIds : \E free \in AllIds :
       /\ "Genre" \in DOMAIN cache /\ id \in DOMAIN cache["Genre"]
       /\ "OtherEntity" \in DOMAIN cache /\ id \in DOMAIN cache["OtherEntity"]
       /\ cache["Genre"][id].attrs["name"] = "b"
       /\ cache["OtherEntity"][id].attrs["name"] = "a"
       /\ free \notin DOMAIN cache["Genre"]
       /\ cache_add1(cache, __init__("Genre", [id_ |-> id, name |-> "a"])) = cache
       /\ cache_add1(cache, __init__("Genre", [id_ |-> free, name |-> "a"])) # cache


\* C30 (snapshot isolation): for an entity the caller holds that was added
\* to the cache, a change of the entity (a field assigned, the list of
\* elements changed in place) leaves the snapshot cache.get returns as it
\* was, and when the entity was equal to its snapshot and the change gave
\* it another value, entity_has_not_changed(entity) is false afterwards.
\* The changes tried: entity.name = v, entity.elements = a new list,
\* entity.elements.append(x).
C30_SnapshotIsolation ==
  (live # <<>> /\ cache_get(cache, live[1]).err = "ok") =>
    \A s \in {caller_set(St, "name", v) : v \in {"a", "b"}}
             \cup {caller_set(St, "elements", ListObj(ops + 1, items)) :
                      items \in ElementLists}
             \cup {caller_append(St, x) : x \in {"a", "b"}} :
      LET snapshot == ListValues(cache_get(cache, live[1]).val)
      IN /\ ListValues(cache_get(s.cache, s.live[1]).val) = snapshot
         /\ (Eq(snapshot, ListValues(live[1]))
               /\ ~Eq(ListValues(s.live[1]), ListValues(live[1]))) =>
              ~list_entity_has_not_changed(s.cache, s.live[1])



\* C31 (cache lookup): cache.get(e) raises KeyError exactly when the cache
\* holds no snapshot of e's class and id_ (none was added, or it was
\* removed since), and entity_has_not_changed(e) is true exactly when a
\* snapshot of e's class and id_ is cached and equal to e by value; it
\* gives a truth value in every case (no exception leaves it).  The
\* entities tried: the one the caller holds, new ListEntity objects, and
\* OtherEntity and Genre objects of every id_.
C31_CacheLookup ==
  \A e \in Range(live)
           \cup {__init__("ListEntity", [id_ |-> IntId(n), name |-> name,
                                         elements |-> ListObj(ops + 1, items)]) :
                   n \in 0..MaxId, name \in {"a", "b"}, items \in ElementLists}
           \cup {__init__(model, [id_ |-> IntId(n), name |-> name]) :
                   model \in Models, n \in 0..MaxId, name \in {"a", "b"}} :
    LET present == e.model \in DOMAIN cache /\ e.id_ \in DOMAIN cache[e.model]
    IN /\ cache_get(cache, e).err = (IF present THEN "ok" ELSE "KeyError")
       /\ present => cache_get(cache, e).val = cache[e.model][e.id_]
       /\ list_entity_has_not_changed(cache, e) \in BOOLEAN
       /\ list_entity_has_not_changed(cache, e)
            <=> (present /\ Eq(ListValues(cache[e.model][e.id_]), ListValues(e)))

\* The snapshot of the ListEntity the caller holds was removed, an
\* OtherEntity of the same id_ is still cached; a new ListEntity of another
\* id_ is cached with another name.
C31_Witness ==
  /\ called = [op |-> "cache.remove", err |-> "ok"]
  /\ live # <<>>
  /\ "ListEntity" \in DOMAIN cache
  /\ live[1].id_ \notin DOMAIN cache["ListEntity"]
  /\ "OtherEntity" \in DOMAIN cache
  /\ live[1].id_ \in DOMAIN cache["OtherEntity"]
  /\ entity_has_not_changed(cache, __init__("OtherEntity", [id_ |-> live[1].id_, name |-> "a"]))
  /\ ~entity_has_not_changed(cache, __init__("OtherEntity", [id_ |-> live[1].id_, name |-> "b"]))

\* C32 (cache removal): after cache.remove(e) cache.get(e) raises KeyError,
\* and a cache.add(e) that follows stores the value e has then; the removal
\* of an entity whose class or id_ is not cached changes nothing, and so
\* does the second removal of an entity given twice in one list; the
\* snapshots of every other class and id_ stay as they were, and none
\* appears.  The entities tried are those of C31.
C32_RemoveEvicts ==
  \A e \in Range(live)
           \cup {__init__("ListEntity", [id_ |-> IntId(n), name |-> name,
                                         elements |-> ListObj(ops + 1, items)]) :
                   n \in 0..MaxId, name \in {"a", "b"}, items \in ElementLists}
           \cup {__init__(model, [id_ |-> IntId(n), name |-> name]) :
                   model \in Models, n \in 0..MaxId, name \in {"a", "b"}} :
    LET gone == cache_remove(cache, <<e>>)
        again == cache_add1(gone, e)
    IN /\ cache_get(gone, e).err = "KeyError"
       /\ cache_get(again, e).err = "ok"
       /\ Eq(ListValues(cache_get(again, e).val), ListValues(e))
       /\ cache_get(cache, e).err = "KeyError" => gone = cache
       /\ cache_remove(cache, <<e, e>>) = gone
       /\ cache_remove(gone, <<e>>) = gone
       /\ \A m \in DOMAIN cache : \A i \in DOMAIN cache[m] :
            (m # e.model \/ i # e.id_) =>
              /\ m \in DOMAIN gone
              /\ i \in DOMAIN gone[m]
              /\ gone[m][i] = cache[m][i]
       /\ \A m \in DOMAIN gone : \A i \in DOMAIN gone[m] :
            m \in DOMAIN cache /\ i \in DOMAIN cache[m]

\* The snapshot of the ListEntity the caller holds was removed while the
\* snapshot of a ListEntity of another id_ stays cached, and cache.add of
\* the entity caches it again.
C32_Witness ==
  /\ called = [op |-> "cache.remove", err |-> "ok"]
  /\ live # <<>>
  /\ cache_get(cache, live[1]).err = "KeyError"
  /\ "ListEntity" \in DOMAIN cache
  /\ \E i \in DOMAIN cache["ListEntity"] : i # live[1].id_
  /\ list_entity_has_not_changed(cache_add1(cache, live[1]), live[1])

\* C33 (upsert uniqueness): the committed store holds at most one record of
\* a class and id_; add of an entity with an id_ followed by commit leaves
\* exactly one record of its class and id_, equal to the entity, whether a
\* record of that class and id_ was stored before or not; and the records
\* of every other class are the ones the commit alone would have left.
C33_UpsertUnique ==
  /\ \A model \in Models : \A id \in AllIds :
       /\ Cardinality(Stored(St, model, id)) <= 1
       /\ backend = "tinydb" =>
            Cardinality({d \in db_ : d["model_type_"] = lower(model)
                                      /\ d["id_"] = id}) <= 1
  /\ \A model \in Models : \A data \in Datas(model) : HasId(data) =>
       LET e == __init__(model, data)
           r == add(caller_new(St, e), FALSE)
           c == commit(r.st)
       IN /\ r.err = "ok"
          /\ Cardinality(Stored(c, model, e.id_)) = 1
          /\ \A x \in Stored(c, model, e.id_) : Eq(x, e)
          /\ \A other \in Models \ {model} : \A id \in AllIds :
               Stored(c, other, id) = Stored(commit(St), other, id)

\* C34 (commit order): of the adds and deletes of one class and id_ staged
\* before a commit, the last decides what the commit leaves: after
\* delete(e); add(e2), e2 a changed version of e, the store holds e2, and
\* after add(e); delete(e) it holds no record of e's class and id_.
C34_CommitOrder ==
  \A model \in Models : \A data \in Datas(model) : HasId(data) =>
    LET e == __init__(model, data)
    IN /\ \A data2 \in Datas(model) :
            LET e2 == __init__(model, data2)
                d == delete(St, e)
                a == add(caller_new(d.st, e2), FALSE)
            IN (HasId(data2) /\ e2.id_ = e.id_ /\ ~Eq(e2, e) /\ d.err = "ok") =>
                 /\ a.err = "ok"
                 /\ Cardinality(Stored(commit(a.st), model, e.id_)) = 1
                 /\ \A x \in Stored(commit(a.st), model, e.id_) : Eq(x, e2)
       /\ LET a == add(caller_new(St, e), FALSE)
              d == delete(a.st, e)
          IN (a.err = "ok" /\ d.err = "ok") =>
               Stored(commit(d.st), model, e.id_) = {}

\* C35 (stored values change through add and commit only): after add(e);
\* commit(), a field of e assigned by the caller changes neither the
\* committed store nor what get(e.id_, type(e)) returns; and a field of e
\* assigned between add(e) and commit() does not change what is staged.
C35_MutationIsolation ==
  \A model \in Models : \A data \in Datas(model) : HasId(data) =>
    LET e == __init__(model, data)
        r == add(caller_new(St, e), FALSE)
        c == commit(r.st)
    IN r.err = "ok" =>
         \A attribute \in Fields(model) : \A value \in Values(model, attribute) :
           /\ StoreView(caller_set(c, attribute, value)) = StoreView(c)
           /\ get(caller_set(c, attribute, value), e.id_, <<model>>).err
                = get(c, e.id_, <<model>>).err
           /\ get(caller_set(c, attribute, value), e.id_, <<model>>).val
                = get(c, e.id_, <<model>>).val
           /\ StagedView(caller_set(r.st, attribute, value)) = StagedView(r.st)

\* C36 (entity ordering): e1 < e2 compares the ids as numbers when both
\* are ints and as strings otherwise, e1 < e2 exactly when e2 > e1, and on
\* the entities supplied, whatever mix of int and str ids they have, < is
\* irreflexive, asymmetric, transitive and total (of two entities with
\* different ids one is less than the other); sorted, max and min of the
\* entities give the same result in whatever order they are supplied.
C36_Ordering ==
  LET S == Range(supplied)
      Orders == {[i \in DOMAIN supplied |-> supplied[p[i]]] :
                   p \in {q \in [DOMAIN supplied -> DOMAIN supplied] :
                            \A i, j \in DOMAIN supplied : q[i] = q[j] => i = j}}
  IN /\ \A e1, e2 \in S :
          /\ __lt__(e1, e2) = (IF isinstance_int(e1.id_) /\ isinstance_int(e2.id_)
                               THEN e1.id_[2] < e2.id_[2]
                               ELSE StrLess(str(e1.id_), str(e2.id_)))
          /\ __lt__(e1, e2) <=> __gt__(e2, e1)
     /\ \A e1 \in S : ~__lt__(e1, e1)
     /\ \A e1, e2 \in S : __lt__(e1, e2) => ~__lt__(e2, e1)
     /\ \A e1, e2, e3 \in S : (__lt__(e1, e2) /\ __lt__(e2, e3)) => __lt__(e1, e3)
     /\ \A e1, e2 \in S : e1.id_ # e2.id_ => (__lt__(e1, e2) \/ __lt__(e2, e1))
     /\ supplied # <<>> =>
          \A order \in Orders :
            /\ sorted(order) = sorted(supplied)
            /\ max(order) = max(supplied)
            /\ min(order) = min(supplied)

\* C37 (reads write nothing): get, all, search, first and last, whether
\* they return or raise, leave the committed store, the staged writes and
\* the caller's entity as they were: the state they leave differs from the
\* state before in the cache at most.
C37_ReadsFrame ==
  /\ \A id \in AllIds : \A models \in ModelLists \cup {<<m>> : m \in SearchModels} :
       get(St, id, models).st = [St EXCEPT !.cache = get(St, id, models).st.cache]
  /\ \A model \in SearchModels :
       /\ all(St, model).st = [St EXCEPT !.cache = all(St, model).st.cache]
       /\ first(St, model).st = [St EXCEPT !.cache = first(St, model).st.cache]
       /\ last(St, model).st = [St EXCEPT !.cache = last(St, model).st.cache]
       /\ \A fields \in SearchFields(model) :
            search(St, fields, model).st
              = [St EXCEPT !.cache = search(St, fields, model).st.cache]

\* An entity is staged and none is committed, and the last call was a
\* search: in this state get and first raise and last returns the staged
\* entity.
C37_Witness ==
  /\ called = [op |-> "search", err |-> "ok"]
  /\ ~NothingStaged(St)
  /\ \E model \in SearchModels :
       /\ last(St, model).err = "ok"
       /\ first(St, model).err = "EntityNotFoundError"
       /\ \E o \in Staged(St, model, last(St, model).val.id_) :
            get(St, o.id_, <<model>>).err = "EntityNotFoundError"

\* C38 (add of a list): add of a list of two entities does what add of the
\* first and then add of the second do, and returns their two results in
\* that order; and when an item fails (it is no entity, or its add raises)
\* the call raises that error and leaves the committed store and the
\* staged writes as they were before the call.
C38_AddList ==
  \A merging \in BOOLEAN : \A m1 \in Models : \A d1 \in Datas(m1) :
    LET e1 == __init__(m1, d1)
        r1 == add(caller_new(St, e1), merging)
    IN /\ \A m2 \in Models : \A d2 \in Datas(m2) :
            LET e2 == __init__(m2, d2)
                r2 == add(caller_new(r1.st, e2), merging)
                r == add_entities(St, <<"list", <<<<"entity", e1>>, <<"entity", e2>>>>>>,
                                  merging)
            IN /\ (r1.err = "ok" /\ r2.err = "ok") =>
                    /\ r.err = "ok"
                    /\ r.val = <<r1.val, r2.val>>
                    /\ r.st = r2.st
               /\ r1.err # "ok" => r.err = r1.err
               /\ (r1.err = "ok" /\ r2.err # "ok") => r.err = r2.err
               /\ r.err # "ok" =>
                    /\ StoreView(r.st) = StoreView(St)
                    /\ StagedView(r.st) = StagedView(St)
       /\ LET r == add_entities(St, <<"list", <<<<"entity", e1>>, IntId(1)>>>>, merging)
          IN /\ r.err # "ok"
             /\ StoreView(r.st) = StoreView(St)
             /\ StagedView(r.st) = StagedView(St)

\* C39 (the backends are interchangeable): on a FakeRepository and a
\* TinyDBRepository that both start empty, after the same sequence of up to
\* two calls of add, delete, commit, get, all, first and last, each further
\* such call raises the same error on both, or none on both and returns
\* results that are equal by the == of the entities.
C39_BackendsAgree ==
  ops = 0 =>
    LET Same(rf, rt) == rf.err = rt.err /\ (rf.err = "ok" => Eq(rf.val, rt.val))
        SameList(rf, rt) ==
          /\ rf.err = rt.err
          /\ rf.err = "ok" => /\ Len(rf.val) = Len(rt.val)
                              /\ \A i \in DOMAIN rf.val : Eq(rf.val[i], rt.val[i])
        Agree(f, t) ==
          /\ \A m \in Models : \A d \in Datas(m) :
               /\ Same(add(caller_new(f, __init__(m, d)), FALSE),
                       add(caller_new(t, __init__(m, d)), FALSE))
               /\ HasId(d) => delete(f, __init__(m, d)).err = delete(t, __init__(m, d)).err
          /\ \A id \in AllIds : \A models \in ModelLists :
               Same(get(f, id, models), get(t, id, models))
          /\ \A model \in Models :
               /\ SameList(all(f, model), all(t, model))
               /\ Same(first(f, model), first(t, model))
               /\ Same(last(f, model), last(t, model))
        After(f, t) ==
          UNION {UNION {{<<add(caller_new(f, __init__(m, d)), FALSE).st,
                           add(caller_new(t, __init__(m, d)), FALSE).st>>}
                        \cup (IF HasId(d)
                              THEN {<<delete(f, __init__(m, d)).st,
                                      delete(t, __init__(m, d)).st>>}
                              ELSE {}) : d \in Datas(m)} : m \in Models}
          \cup {<<commit(f), commit(t)>>}
          \cup {<<get(f, id, models).st, get(t, id, models).st>> :
                  id \in AllIds, models \in ModelLists}
          \cup {<<all(f, model).st, all(t, model).st>> : model \in Models}
          \cup {<<last(f, model).st, last(t, model).st>> : model \in Models}
    IN /\ Agree([St EXCEPT !.backend = "fake"], [St EXCEPT !.backend = "tinydb"])
       /\ \A p \in After([St EXCEPT !.backend = "fake"], [St EXCEPT !.backend = "tinydb"]) :
            /\ Agree(p[1], p[2])
            /\ \A q \in After(p[1], p[2]) : Agree(q[1], q[2])

====
